---- MODULE Spec2Model ----
(***************************************************************************)
(* Inference bridge of the SQL-to-text demo backend                        *)
(* (backend/flaskr/sql2text_bridge.py): the checkpoint registry and the    *)
(* cached training datasets, the predict / run_sql2text request chain and  *)
(* the greedy decode loop of evaluate.                                     *)
(*                                                                         *)
(* Python values are modelled as follows.  None is the string PyNone       *)
(* where a string is expected and a record of kind "None" where an object  *)
(* is expected.  A formatted string is the sequence of its fragments, so   *)
(* "" is << >>.  A tensor is an object on a heap (the sequence `tensors`), *)
(* named by its index: appending a tensor to a list stores the reference.  *)
(***************************************************************************)
EXTENDS Integers, Sequences, FiniteSets, TLC

\* ------------------------------------------------------------------------
\* Bounds of the model
\* ------------------------------------------------------------------------
\* closed vocabulary ids are 0 .. VocabSize-1
VocabSize == 4
\* copy ids are VocabSize .. VocabSize+MaxOov-1 (args.max_oov_num)
MaxOov == 2
\* examples in an evaluation dataset (one decode loop per example)
MaxExamples == 2

\* ------------------------------------------------------------------------
\* Module constants of sql2text_bridge.py
\* ------------------------------------------------------------------------
MAX_DECODE == 500

SUPPORTED_MODELS == <<"BiLSTM", "Relative-Transformer", "Transformer", "TreeLSTM">>

SupportedSet == {SUPPORTED_MODELS[i] : i \in 1..Len(SUPPORTED_MODELS)}

SeqFamily == {"Relative-Transformer", "Transformer", "BiLSTM"}

PyNone == "<None>"

\* a tag no branch of the code knows
UnsupportedTag == "LSTM2"

\* ------------------------------------------------------------------------
\* Vocabulary, weights and the decoder
\* ------------------------------------------------------------------------
\* A Vocabulary instance: `id` is the identity of the object.
Vocabulary(id) ==
    [id |-> id, size |-> VocabSize, pad_idx |-> 0, unk_idx |-> 1,
     sos_idx |-> 2 % VocabSize, eos_idx |-> 3 % VocabSize]

NoVocab == [id |-> 0, size |-> 0, pad_idx |-> 0, unk_idx |-> 0, sos_idx |-> 0, eos_idx |-> 0]

\* The trained parameters decide what model.decode answers.  The greedy
\* choice at a step depends on the token fed in and on the hidden state,
\* which advances with the step: a family of such decoders, among them ones
\* that emit only closed-vocabulary ids (c < VocabSize, a = b = 0), only one
\* copy id (c >= VocabSize, a = b = 0) and every mixture of both.
Weights == [a : 0..1, b : 0..1, c : {0, VocabSize}]

IdRange == VocabSize + MaxOov

\* cur_out.argmax(dim=-1) of model.decode(inputs, ..., hidden, ...)
DecodeArgmax(w, inputTok, k) == (w.a * inputTok + w.b * k + w.c) % IdRange

\* ------------------------------------------------------------------------
\* evaluate: the frame of one call (its locals), and its steps as operators
\* ------------------------------------------------------------------------
Golds == {PyNone, "", "w0 w1"}

\* the words of a gold text, as the detokenizer's tokens
GoldWords(g) == IF g = "w0 w1" THEN << <<"w", 0>>, <<"w", 1>> >> ELSE << >>

\* An evaluation or training dataset.  `vocab` is the Vocabulary instance it
\* is bound to, `examples` its length, `origin_questions` the gold text of
\* its examples.
NoDataset == [kind |-> "None", vocab |-> NoVocab, examples |-> 0, origin_questions |-> PyNone]

\* frame of evaluate(model, dataset, vocab, args, model_name) on entry
EvalFrame(model_name, w, dataset, vocab) ==
    [pc |-> "enter", model_name |-> model_name, weights |-> w,
     dataset |-> dataset, vocab |-> vocab,
     batch |-> 0, step |-> 0, inputs |-> 0,
     tensors |-> << >>, preds |-> << >>, argmaxes |-> << >>, fed |-> << >>,
     all_predictions |-> << >>, all_argmaxes |-> << >>,
     prediction |-> << >>, score |-> 0]

\* lines 197-198: an unsupported model_name returns "", 0 at once;
\* lines 200-202 otherwise
EvalEnter(f) ==
    IF f.model_name \notin SupportedSet
    THEN [f EXCEPT !.pc = "done", !.prediction = << >>, !.score = 0]
    ELSE [f EXCEPT !.pc = "batches", !.all_predictions = << >>]

\* line 204: the DataLoader yields one batch per example (eval_batch_size = 1)
MoreBatches(f) == f.batch < f.dataset.examples

\* lines 205-223: preds = [], encode, inputs = questions[:, 0].view(-1, 1).
\* The start marker is tensor 1 of the batch's heap.
BeginBatch(f) ==
    [f EXCEPT !.pc = "decode", !.batch = f.batch + 1, !.step = 0,
              !.tensors = << f.vocab.sos_idx >>, !.inputs = 1,
              !.preds = << >>, !.argmaxes = << >>, !.fed = << >>]

\* line 224: for _ in range(MAX_DECODE)
LoopContinuesEarlyStop(f) ==
    /\ f.step < MAX_DECODE
    /\ (f.step > 0 => f.argmaxes[f.step] # f.vocab.eos_idx)

LoopContinues(f) == f.step < MAX_DECODE

\* line 229 left out: the tensor keeps the id selected
MaskedFillNone(heap, ref, vocab) == heap

\* line 229: next_input[next_input >= vocab.size] = vocab.unk_idx writes the
\* tensor object `ref` in place
MaskedFill(heap, ref, vocab) ==
    IF heap[ref] >= vocab.size THEN [heap EXCEPT ![ref] = vocab.unk_idx] ELSE heap

\* lines 225-230, one pass of the loop body
DecodeStep(f) ==
    LET tok  == f.tensors[f.inputs]
        sel  == DecodeArgmax(f.weights, tok, f.step)
        ref  == Len(f.tensors) + 1
        made == Append(f.tensors, sel)
    IN  [f EXCEPT !.step = f.step + 1,
                  !.fed = Append(f.fed, tok),
                  !.argmaxes = Append(f.argmaxes, sel),
                  !.preds = Append(f.preds, ref),
                  !.tensors = MaskedFill(made, ref, f.vocab),
                  !.inputs = ref]

\* lines 232-233: torch.cat reads the tensors the list refers to, as they
\* are now; all_predictions += preds.tolist()
EndBatch(f) ==
    [f EXCEPT !.pc = "batches",
              !.all_predictions =
                  Append(f.all_predictions, [i \in 1..Len(f.preds) |-> f.tensors[f.preds[i]]]),
              !.all_argmaxes = Append(f.all_argmaxes, f.argmaxes)]

\* Utils.metric.get_metric: an id inside the vocabulary maps through the
\* Vocabulary, a copy id through the example's id-to-token map.
Detokenize(ids, vocab) ==
    [i \in 1..Len(ids) |->
        IF ids[i] < vocab.size THEN <<"w", ids[i]>> ELSE <<"src", ids[i] - vocab.size>>]

\* similarity of a prediction to the gold words, 0 .. 100
Similarity(pred, gold) ==
    (100 * Cardinality({i \in 1..Len(gold) : \E j \in 1..Len(pred) : pred[j] = gold[i]}))
        \div Len(gold)

\* scores of get_metric: computed only for a gold text that is supplied
MetricScores(all_predictions, origin_questions, vocab) ==
    IF GoldWords(origin_questions) = << >> THEN << >>
    ELSE [i \in 1..Len(all_predictions) |->
            Similarity(Detokenize(all_predictions[i], vocab), GoldWords(origin_questions))]

MetricPredictions(all_predictions, vocab) ==
    [i \in 1..Len(all_predictions) |-> Detokenize(all_predictions[i], vocab)]

\* lines 235-240 with 1 for the score that is missing
EvalMetricDefaultOne(f) ==
    LET scores == MetricScores(f.all_predictions, f.dataset.origin_questions, f.vocab)
        result_predictions == MetricPredictions(f.all_predictions, f.vocab)
    IN  [f EXCEPT !.pc = "done",
                  !.prediction = IF Len(result_predictions) > 0
                                 THEN result_predictions[1] ELSE << >>,
                  !.score = IF Len(scores) > 0 THEN scores[1] ELSE 1]

\* lines 235-240
EvalMetric(f) ==
    LET scores == MetricScores(f.all_predictions, f.dataset.origin_questions, f.vocab)
        result_predictions == MetricPredictions(f.all_predictions, f.vocab)
    IN  [f EXCEPT !.pc = "done",
                  !.prediction = IF Len(result_predictions) > 0
                                 THEN result_predictions[1] ELSE << >>,
                  !.score = IF Len(scores) > 0 THEN scores[1] ELSE 0]

\* one step of evaluate, whichever is next
EvalStep(f) ==
    CASE f.pc = "enter"   -> EvalEnter(f)
      [] f.pc = "batches" -> IF MoreBatches(f) THEN BeginBatch(f) ELSE EvalMetric(f)
      [] f.pc = "decode"  -> IF LoopContinues(f) THEN DecodeStep(f) ELSE EndBatch(f)
      [] OTHER            -> f

\* n steps from frame f (the first half is computed before the second
\* starts from it)
RECURSIVE Iterate(_, _)
Iterate(f, n) ==
    IF n = 0 THEN f
    ELSE IF n = 1 THEN EvalStep(f)
    ELSE LET half == Iterate(f, n \div 2)
         IN  IF half.pc = "done" THEN half ELSE Iterate(half, n - (n \div 2))

\* evaluate run to its return: enough steps for every batch's loop
evaluate(model_name, w, dataset, vocab) ==
    Iterate(EvalFrame(model_name, w, dataset, vocab),
            2 + dataset.examples * (MAX_DECODE + 2))

\* ------------------------------------------------------------------------
\* Checkpoints, datasets, the model factory, the request
\* ------------------------------------------------------------------------
\* What torch.load can find in the checkpoint file of `tag`: the saved
\* hyperparameters (args) and the trained parameters (model).  The second is
\* a checkpoint trained for an architecture the bridge does not know.
CheckpointFiles(tag) ==
    { [args  |-> [model |-> tag, data |-> "spider", eval_batch_size |-> 32],
       model |-> [a |-> 0, b |-> 1, c |-> 0]],
      [args  |-> [model |-> UnsupportedTag, data |-> "wikisql", eval_batch_size |-> 32],
       model |-> [a |-> 1, b |-> 0, c |-> VocabSize]] }

\* SeqDataset / TreeDataset over the training corpus: builds its own
\* Vocabulary, a new instance
TrainDataset(kind, vocab_id) ==
    [kind |-> kind, vocab |-> Vocabulary(vocab_id), examples |-> MaxExamples,
     origin_questions |-> "w0 w1"]

\* SeqDataset / TreeDataset over one materialized request, bound to `vocab`
RequestDataset(kind, question, vocab) ==
    [kind |-> kind, vocab |-> vocab, examples |-> 1, origin_questions |-> question]

\* lines 122-135
get_train_dataset(model, seq, tree) ==
    IF model \in SeqFamily THEN seq
    ELSE IF model = "TreeLSTM" THEN tree
    ELSE NoDataset

\* a call's outcome: the value returned, or the exception raised
Returns(v) == [raised |-> FALSE, msg |-> "", value |-> v]

Raises(msg, v) == [raised |-> TRUE, msg |-> msg, value |-> v]

\* lines 138-153 with the wrong family's training set (a slip on line 143)
build_dataset_other_family(model, question, seq, tree) ==
    IF model \in SeqFamily
    THEN IF tree.kind = "None"
         THEN Raises("'NoneType' object has no attribute 'vocab'", NoDataset)
         ELSE Returns(RequestDataset("seq", question, tree.vocab))
    ELSE IF model = "TreeLSTM"
    THEN IF seq.kind = "None"
         THEN Raises("'NoneType' object has no attribute 'vocab'", NoDataset)
         ELSE Returns(RequestDataset("tree", question, seq.vocab))
    ELSE Returns(NoDataset)

\* lines 138-153 with vocab=None passed on for a train_set that is None: the
\* constructor then builds a Vocabulary of its own
build_dataset_fresh_vocab(model, question, seq, tree) ==
    IF model \in SeqFamily
    THEN LET train_set == get_train_dataset(model, seq, tree)
         IN  IF train_set.kind = "None"
             THEN Returns(RequestDataset("seq", question, Vocabulary(1)))
             ELSE Returns(RequestDataset("seq", question, train_set.vocab))
    ELSE IF model = "TreeLSTM"
    THEN LET train_set == get_train_dataset(model, seq, tree)
         IN  IF train_set.kind = "None"
             THEN Returns(RequestDataset("tree", question, Vocabulary(1)))
             ELSE Returns(RequestDataset("tree", question, train_set.vocab))
    ELSE Returns(NoDataset)

\* lines 138-153: train_set.vocab of a train_set that is None raises
\* AttributeError
build_dataset(model, question, seq, tree) ==
    IF model \in SeqFamily
    THEN LET train_set == get_train_dataset(model, seq, tree)
         IN  IF train_set.kind = "None"
             THEN Raises("'NoneType' object has no attribute 'vocab'", NoDataset)
             ELSE Returns(RequestDataset("seq", question, train_set.vocab))
    ELSE IF model = "TreeLSTM"
    THEN LET train_set == get_train_dataset(model, seq, tree)
         IN  IF train_set.kind = "None"
             THEN Raises("'NoneType' object has no attribute 'vocab'", NoDataset)
             ELSE Returns(RequestDataset("tree", question, train_set.vocab))
    ELSE Returns(NoDataset)

\* a model instance; NoModel is None
NoModel == [arch |-> "None", vocab_size |-> 0, weights |-> [a |-> 0, b |-> 0, c |-> 0]]

\* lines 156-193: the parameters of a new instance are untrained
build_model(args, vocab) ==
    IF vocab.id = 0 THEN NoModel
    ELSE IF args.model \in SupportedSet
    THEN [arch |-> args.model, vocab_size |-> vocab.size,
          weights |-> [a |-> 0, b |-> 0, c |-> 0]]
    ELSE NoModel

\* flaskr.evaluation_result.EvaluationResult()
EvaluationResult ==
    [modelName |-> PyNone, original |-> PyNone, hasScore |-> FALSE,
     result |-> << >>, score |-> 0, success |-> FALSE, failedReason |-> << >>]

\* str() of a value inside an f-string
Str(x) == IF x = PyNone THEN "None" ELSE x

\* a Python list of strings inside an f-string: ['a', 'b']
RECURSIVE ReprItems(_, _)
ReprItems(list, i) ==
    IF i > Len(list) THEN << >>
    ELSE (IF i > 1 THEN <<", ">> ELSE << >>) \o <<"'", list[i], "'">> \o ReprItems(list, i + 1)

ReprList(list) == <<"[">> \o ReprItems(list, 1) \o <<"]">>

\* str(err): the message, "" for an exception raised without one
StrErr(msg) == IF msg = "" THEN << >> ELSE << msg >>

\* line 38, with the emptiness test dropped
HasScoreNotNone(gold_nl_array) == gold_nl_array # PyNone

\* line 38
HasScore(gold_nl_array) == gold_nl_array # PyNone /\ gold_nl_array # ""

\* line 40, a check that lets every tag through
TagRejectedNever(model) == FALSE

\* line 40
TagRejected(model) == model \notin SupportedSet

\* line 50, a test that takes every path for a path
PathEmptyNever(jsonTargetPath) == FALSE

\* line 50
PathEmpty(jsonTargetPath) == jsonTargetPath = ""

\* the local `checkpoint` of run_sql2text before line 251 binds it
NoCheckpoint ==
    [args |-> [model |-> PyNone, data |-> PyNone, eval_batch_size |-> 0],
     model |-> [a |-> 0, b |-> 0, c |-> 0]]

\* line 251 as checkpoint_dict.pop(model): the call keeps the checkpoint, the
\* registry loses it
StoredPopped(dict, model, checkpoint) == [t \in (DOMAIN dict) \ {model} |-> dict[t]]

\* lines 251-255: `checkpoint` names the object the registry holds, so the
\* registry holds what the call wrote into it
Stored(dict, model, checkpoint) == [dict EXCEPT ![model] = checkpoint]

\* the frame of a predict call that is not running
IdleRequest ==
    [pc |-> "idle", model |-> PyNone, gold |-> PyNone, input_sql |-> PyNone,
     jsonTargetPath |-> "", result |-> EvaluationResult,
     model_var |-> PyNone, checkpoint |-> NoCheckpoint,
     test_dataset |-> NoDataset, net |-> NoModel,
     calls |-> {}]

\* what a stage's collaborators can do: return, or raise
Faults == {Returns(0), Raises("CUDA error: out of memory", 0)}

\* what file_utils.build_input_sql_json can do: return a path, return "",
\* raise
Materialized == {Returns("input.json"), Returns(""), Raises("disk full", "")}

\* the tags a caller can pass
Tags == SupportedSet \cup {UnsupportedTag}

\* ------------------------------------------------------------------------
\* State
\* ------------------------------------------------------------------------
VARIABLES
    checkpoint_dict,     \* line 30: tag -> checkpoint, for the tags loaded
    train_seq_dataset,   \* line 28
    train_tree_dataset,  \* line 29
    vocab_count,         \* Vocabulary instances built so far
    loader,              \* setup_checkpoints: the tag it loads next
    builder,             \* setup_models: its position, the calls made
    req,                 \* the predict call in flight
    served,              \* predict calls made so far
    ev,                  \* frame of the evaluate call observed step by step
    earlier              \* a call the caller has kept the result of

vars == << checkpoint_dict, train_seq_dataset, train_tree_dataset, vocab_count,
           loader, builder, req, served, ev, earlier >>

shared == << checkpoint_dict, train_seq_dataset, train_tree_dataset >>

bridge == << checkpoint_dict, train_seq_dataset, train_tree_dataset, vocab_count,
             loader, builder, req, served, earlier >>

\* more bounds: predict calls, setup_models calls
MaxRequests == 3

MaxSetupCalls == 2

\* lines 60-61
is_ready ==
    /\ Cardinality(DOMAIN checkpoint_dict) # 0
    /\ train_seq_dataset.kind # "None"
    /\ train_tree_dataset.kind # "None"

\* no call kept
NoCall == [at |-> 0, model |-> PyNone, gold |-> PyNone, input_sql |-> PyNone,
           jsonTargetPath |-> "", result |-> EvaluationResult]

NoFrame == [EvalFrame(PyNone, [a |-> 0, b |-> 0, c |-> 0], NoDataset, NoVocab) EXCEPT !.pc = "idle"]

\* lines 28-30: the module as imported
Init ==
    /\ checkpoint_dict = [t \in {} |-> 0]
    /\ train_seq_dataset = NoDataset
    /\ train_tree_dataset = NoDataset
    /\ vocab_count = 0
    /\ loader = [i |-> 1, raised |-> FALSE]
    /\ builder = [pc |-> "idle", calls |-> 0]
    /\ req = IdleRequest
    /\ served = 0
    /\ ev = NoFrame
    /\ earlier = NoCall

\* ------------------------------------------------------------------------
\* evaluate, step by step
\* ------------------------------------------------------------------------
EvalDatasets ==
    {[kind |-> "eval", vocab |-> Vocabulary(1), examples |-> n, origin_questions |-> g] :
        n \in 1..MaxExamples, g \in Golds}

DecodeInit ==
    \E m \in SupportedSet \cup {UnsupportedTag}, w \in Weights, d \in EvalDatasets :
        /\ ev = EvalFrame(m, w, d, d.vocab)
        /\ checkpoint_dict = [t \in {} |-> 0]
        /\ train_seq_dataset = NoDataset
        /\ train_tree_dataset = NoDataset
        /\ vocab_count = 0
        /\ loader = [i |-> 1, raised |-> FALSE]
        /\ builder = [pc |-> "idle", calls |-> 0]
        /\ req = IdleRequest
        /\ served = 0
        /\ earlier = NoCall

Enter ==
    /\ ev.pc = "enter"
    /\ ev' = EvalEnter(ev)
    /\ UNCHANGED bridge

NextBatch ==
    /\ ev.pc = "batches"
    /\ MoreBatches(ev)
    /\ ev' = BeginBatch(ev)
    /\ UNCHANGED bridge

Decode ==
    /\ ev.pc = "decode"
    /\ LoopContinues(ev)
    /\ ev' = DecodeStep(ev)
    /\ UNCHANGED bridge

Concat ==
    /\ ev.pc = "decode"
    /\ ~LoopContinues(ev)
    /\ ev' = EndBatch(ev)
    /\ UNCHANGED bridge

Metric ==
    /\ ev.pc = "batches"
    /\ ~MoreBatches(ev)
    /\ ev' = EvalMetric(ev)
    /\ UNCHANGED bridge

DecodeNext == Enter \/ NextBatch \/ Decode \/ Concat \/ Metric

SpecDecode == DecodeInit /\ [][DecodeNext]_vars

\* ------------------------------------------------------------------------
\* Startup: setup_checkpoints and setup_models
\* ------------------------------------------------------------------------
\* lines 67-73, one pass of the loop: torch.load returns the file's content
LoadCheckpoint ==
    /\ ~loader.raised
    /\ loader.i <= Len(SUPPORTED_MODELS)
    /\ \E file \in CheckpointFiles(SUPPORTED_MODELS[loader.i]) :
          checkpoint_dict' = (SUPPORTED_MODELS[loader.i] :> file) @@ checkpoint_dict
    /\ loader' = [loader EXCEPT !.i = loader.i + 1]
    /\ UNCHANGED << train_seq_dataset, train_tree_dataset, vocab_count, builder, req, served, ev, earlier >>

\* line 71: torch.load raises (file missing or corrupt); nothing catches it,
\* setup_checkpoints ends there
LoadCheckpointFails ==
    /\ ~loader.raised
    /\ loader.i <= Len(SUPPORTED_MODELS)
    /\ loader' = [loader EXCEPT !.raised = TRUE]
    /\ UNCHANGED << checkpoint_dict, train_seq_dataset, train_tree_dataset, vocab_count,
                    builder, req, served, ev, earlier >>

\* lines 83 and 90, a test that finds every dataset missing
IsNoneAlways(dataset) == TRUE

\* lines 83 and 90: train_seq_dataset is None, train_tree_dataset is None
IsNone(dataset) == dataset.kind = "None"

\* setup_models is called
SetupModelsCall ==
    /\ builder.pc = "idle"
    /\ builder.calls < MaxSetupCalls
    /\ builder' = [pc |-> "seq", calls |-> builder.calls + 1]
    /\ UNCHANGED << checkpoint_dict, train_seq_dataset, train_tree_dataset, vocab_count,
                    loader, req, served, ev, earlier >>

\* lines 83-89; a constructor that raises ends the call
SetupModelsSeq ==
    /\ builder.pc = "seq"
    /\ IF IsNone(train_seq_dataset)
       THEN \/ /\ train_seq_dataset' = TrainDataset("seq", vocab_count + 1)
               /\ vocab_count' = vocab_count + 1
               /\ builder' = [builder EXCEPT !.pc = "tree"]
            \/ /\ builder' = [builder EXCEPT !.pc = "idle"]
               /\ UNCHANGED << train_seq_dataset, vocab_count >>
       ELSE /\ builder' = [builder EXCEPT !.pc = "tree"]
            /\ UNCHANGED << train_seq_dataset, vocab_count >>
    /\ UNCHANGED << checkpoint_dict, train_tree_dataset, loader, req, served, ev, earlier >>

\* lines 90-99
SetupModelsTree ==
    /\ builder.pc = "tree"
    /\ IF IsNone(train_tree_dataset)
       THEN \/ /\ train_tree_dataset' = TrainDataset("tree", vocab_count + 1)
               /\ vocab_count' = vocab_count + 1
            \/ UNCHANGED << train_tree_dataset, vocab_count >>
       ELSE UNCHANGED << train_tree_dataset, vocab_count >>
    /\ builder' = [builder EXCEPT !.pc = "idle"]
    /\ UNCHANGED << checkpoint_dict, train_seq_dataset, loader, req, served, ev, earlier >>

\* ------------------------------------------------------------------------
\* predict and run_sql2text
\* ------------------------------------------------------------------------
\* a failure return: only failedReason is written
Failed(r, reason) == [r EXCEPT !.pc = "returned", !.result.failedReason = reason]

\* lines 281-285
Caught(r, msg) == [r EXCEPT !.pc = "returned", !.result.failedReason = StrErr(msg)]

Called(r, what) == [r EXCEPT !.calls = r.calls \cup {what}]

\* lines 33-55: up to the call of run_sql2text.  `mat` is what
\* build_input_sql_json does when it is called.
predict(model, gold_nl_array, input_sql, mat) ==
    LET r == [IdleRequest EXCEPT
                !.model = model, !.gold = gold_nl_array, !.input_sql = input_sql,
                !.model_var = model,
                !.result = [EvaluationResult EXCEPT
                              !.modelName = model, !.original = input_sql,
                              !.hasScore = HasScore(gold_nl_array)]]
    IN  IF TagRejected(model)
        THEN Failed(r, <<"model '", Str(model), "' is not in supported models ">>
                         \o ReprList(SUPPORTED_MODELS) \o <<"!">>)
        ELSE IF mat.raised
        THEN [Called(r, "build_input_sql_json") EXCEPT !.pc = "raised"]
        ELSE IF PathEmpty(mat.value)
        THEN Failed(Called(r, "build_input_sql_json"),
                    <<"build json file for model '", Str(model), "' input_sql '",
                      Str(input_sql), "' failed!">>)
        ELSE [Called(r, "build_input_sql_json") EXCEPT
                !.pc = "run", !.jsonTargetPath = mat.value]

Predict ==
    /\ req.pc = "idle"
    /\ served < MaxRequests
    /\ \E model \in Tags, gold \in Golds, mat \in Materialized :
          req' = predict(model, gold, "SELECT name FROM singer", mat)
    /\ served' = served + 1
    /\ UNCHANGED << checkpoint_dict, train_seq_dataset, train_tree_dataset, vocab_count,
                    loader, builder, ev, earlier >>

\* lines 245-255: the lookup, and the defaults written into the checkpoint's
\* args, the object the registry holds
RunLookup ==
    /\ req.pc = "run"
    /\ IF req.model \notin DOMAIN checkpoint_dict
       THEN /\ req' = Failed(req, <<"checkpoint for model ", Str(req.model_var),
                                    " is not loaded yet">>)
            /\ UNCHANGED checkpoint_dict
       ELSE LET checkpoint == [checkpoint_dict[req.model] EXCEPT
                                  !.args.data = "spider",
                                  !.args.eval_batch_size = 1]
            IN  /\ checkpoint_dict' = Stored(checkpoint_dict, req.model, checkpoint)
                /\ req' = [Called(req, "checkpoint_dict") EXCEPT
                             !.pc = "dataset", !.checkpoint = checkpoint]
    /\ UNCHANGED << train_seq_dataset, train_tree_dataset, vocab_count, loader, builder,
                    served, ev, earlier >>

\* lines 257-262
RunBuildDataset ==
    /\ req.pc = "dataset"
    /\ \E fault \in Faults :
          LET out == IF fault.raised THEN fault
                     ELSE build_dataset(req.model_var, req.gold,
                                        train_seq_dataset, train_tree_dataset)
              r   == Called(req, "build_dataset")
          IN  req' = IF out.raised THEN Caught(r, out.msg)
                     ELSE IF out.value.kind = "None"
                     THEN Failed(r, <<"build dataset for ", Str(req.model_var), " failed">>)
                     ELSE [r EXCEPT !.pc = "model", !.test_dataset = out.value]
    /\ UNCHANGED << checkpoint_dict, train_seq_dataset, train_tree_dataset, vocab_count,
                    loader, builder, served, ev, earlier >>

\* lines 264-269: the local `model` is bound to what build_model returns
\* before the reason is formatted
RunBuildModel ==
    /\ req.pc = "model"
    /\ \E fault \in Faults :
          LET net == build_model(req.checkpoint.args, req.test_dataset.vocab)
              r   == Called(req, "build_model")
          IN  req' = IF fault.raised THEN Caught(r, fault.msg)
                     ELSE IF net.arch = "None"
                     THEN Failed([r EXCEPT !.model_var = PyNone],
                                 <<"build model for ", Str(PyNone), " failed">>)
                     ELSE [r EXCEPT !.pc = "evaluate", !.model_var = net.arch, !.net = net]
    /\ UNCHANGED << checkpoint_dict, train_seq_dataset, train_tree_dataset, vocab_count,
                    loader, builder, served, ev, earlier >>

\* evaluate is a function of its arguments: its value for every call
\* run_sql2text can make (line 275), computed once
TrainedWeights == UNION {{file.model : file \in CheckpointFiles(t)} : t \in SupportedSet}

EvaluateCalls ==
    { <<m, w, RequestDataset(k, g, Vocabulary(v))>> :
        m \in SupportedSet, w \in TrainedWeights,
        k \in {"seq", "tree"}, g \in Golds, v \in 1..2 }

evaluated == [call \in EvaluateCalls |-> evaluate(call[1], call[2], call[3], call[3].vocab)]

\* lines 277-279 with a reason written on success as well
WriteSuccessWithReason(r, f) ==
    [r EXCEPT !.pc = "returned",
              !.result.result = f.prediction,
              !.result.score = f.score,
              !.result.success = TRUE,
              !.result.failedReason = <<"ok">>]

\* lines 277-279
WriteSuccess(r, f) ==
    [r EXCEPT !.pc = "returned",
              !.result.result = f.prediction,
              !.result.score = f.score,
              !.result.success = TRUE]

\* lines 271-279: load_state_dict, evaluate, the three writes of a success
RunEvaluate ==
    /\ req.pc = "evaluate"
    /\ \E fault \in Faults :
          LET checkpoint == req.checkpoint
              net == [req.net EXCEPT !.weights = checkpoint.model]
              f   == evaluated[<<checkpoint.args.model, net.weights, req.test_dataset>>]
              r   == Called(Called(req, "load_state_dict"), "evaluate")
          IN  req' = IF fault.raised THEN Caught(r, fault.msg)
                     ELSE WriteSuccess([r EXCEPT !.net = net], f)
    /\ UNCHANGED << checkpoint_dict, train_seq_dataset, train_tree_dataset, vocab_count,
                    loader, builder, served, ev, earlier >>

\* the caller has the result (or the exception); the frame is gone
Return ==
    /\ req.pc \in {"returned", "raised"}
    /\ req' = IdleRequest
    /\ UNCHANGED << checkpoint_dict, train_seq_dataset, train_tree_dataset, vocab_count,
                    loader, builder, served, ev, earlier >>

Next ==
    \/ LoadCheckpoint
    \/ LoadCheckpointFails
    \/ SetupModelsCall
    \/ SetupModelsSeq
    \/ SetupModelsTree
    \/ Predict
    \/ RunLookup
    \/ RunBuildDataset
    \/ RunBuildModel
    \/ RunEvaluate
    \/ Return

Spec == Init /\ [][Next]_vars

\* ------------------------------------------------------------------------
\* The service after startup: repeated calls
\* ------------------------------------------------------------------------
\* the files setup_checkpoints can have loaded, the same variant of every one
Registries ==
    { [t \in SupportedSet |-> CHOOSE file \in CheckpointFiles(t) : file.args.data = d] :
        d \in {"spider", "wikisql"} }

\* setup_checkpoints and setup_models have returned
ServingInit ==
    /\ checkpoint_dict \in Registries
    /\ train_seq_dataset = TrainDataset("seq", 1)
    /\ train_tree_dataset = TrainDataset("tree", 2)
    /\ vocab_count = 2
    /\ loader = [i |-> Len(SUPPORTED_MODELS) + 1, raised |-> FALSE]
    /\ builder = [pc |-> "idle", calls |-> 1]
    /\ req = IdleRequest
    /\ served = 0
    /\ ev = NoFrame
    /\ earlier = NoCall

\* the call left through the except clause of lines 281-285 on a
\* collaborator's exception, or the exception left predict
CollaboratorRaised(r) ==
    \/ r.pc = "raised"
    \/ \E fault \in Faults : fault.raised /\ r.result.failedReason = StrErr(fault.msg)

\* the caller keeps what it passed, the record that was materialized and the
\* EvaluationResult it got back
Kept(r, at) ==
    [at |-> at, model |-> r.model, gold |-> r.gold, input_sql |-> r.input_sql,
     jsonTargetPath |-> r.jsonTargetPath, result |-> r.result]

Remember ==
    /\ req.pc = "returned"
    /\ ~CollaboratorRaised(req)
    /\ earlier = NoCall
    /\ earlier' = Kept(req, served)
    /\ req' = IdleRequest
    /\ UNCHANGED << checkpoint_dict, train_seq_dataset, train_tree_dataset, vocab_count,
                    loader, builder, served, ev >>

ServingNext ==
    \/ Predict
    \/ RunLookup
    \/ RunBuildDataset
    \/ RunBuildModel
    \/ RunEvaluate
    \/ Return
    \/ Remember

SpecServing == ServingInit /\ [][ServingNext]_vars

\* ------------------------------------------------------------------------
\* Properties
\* ------------------------------------------------------------------------
Range(seq) == {seq[i] : i \in 1..Len(seq)}

LoadedTags == DOMAIN checkpoint_dict

BothDatasetsExist == train_seq_dataset.kind # "None" /\ train_tree_dataset.kind # "None"

\* C1: is_ready() is true only if the checkpoints of all four supported tags
\* are loaded and both training datasets exist; it is false while the load of
\* any tag is pending.
ReadyOnlyWhenAllLoaded ==
    is_ready => (LoadedTags = SupportedSet /\ BothDatasetsExist)

\* C2: at every step whose argmax is a copy id (>= vocab.size), the id
\* recorded at that position, in the list preds and in the sequence handed to
\* get_metric, is the id selected and not unk_idx.
RecordedIdIsOriginal ==
    /\ \A k \in 1..Len(ev.preds) :
          ev.argmaxes[k] >= ev.vocab.size => ev.tensors[ev.preds[k]] = ev.argmaxes[k]
    /\ \A b \in 1..Len(ev.all_predictions) : \A k \in 1..Len(ev.all_predictions[b]) :
          ev.all_argmaxes[b][k] >= ev.vocab.size
              => ev.all_predictions[b][k] = ev.all_argmaxes[b][k]

\* C3: no exception crosses the predict boundary: a predict call never ends
\* by raising, and a call that ends without success carries a non-empty
\* failedReason.
NoExceptionCrossesPredict ==
    /\ req.pc # "raised"
    /\ (req.pc = "returned" /\ ~req.result.success => req.result.failedReason # << >>)

StartupComplete ==
    /\ loader.i > Len(SUPPORTED_MODELS)
    /\ builder.pc = "idle"
    /\ BothDatasetsExist

\* C4: once setup_checkpoints and setup_models have completed, no step of any
\* predict / run_sql2text call changes checkpoint_dict (the checkpoints'
\* hyperparameter records included) or either training dataset.
SharedWrittenOnlyAtStartup ==
    [][StartupComplete => shared' = shared]_vars

\* C5: the decode loop makes exactly MAX_DECODE steps per example and records
\* exactly MAX_DECODE positions for it: never a step beyond the bound, one
\* recorded position per step, and a batch is closed only at the bound.
DecodeRunsExactlyMaxDecode ==
    /\ ev.step <= MAX_DECODE
    /\ Len(ev.preds) = ev.step
    /\ \A b \in 1..Len(ev.all_predictions) : Len(ev.all_predictions[b]) = MAX_DECODE
    /\ Len(ev.all_predictions) <= ev.dataset.examples
    /\ (ev.pc = "done" /\ ev.model_name \in SupportedSet
            => Len(ev.all_predictions) = ev.dataset.examples)

\* an evaluate call that has returned after decoding every example, the
\* decoder having emitted the end marker, the pad id and copy ids on the way
DecodeRanToTheBound ==
    /\ ev.pc = "done"
    /\ ev.dataset.examples = MaxExamples
    /\ Len(ev.all_predictions) = MaxExamples
    /\ ev.vocab.eos_idx \in Range(ev.all_argmaxes[1])
    /\ ev.vocab.pad_idx \in Range(ev.all_argmaxes[1])
    /\ \E k \in 1..MAX_DECODE : ev.all_argmaxes[1][k] >= ev.vocab.size

\* C6: a predict call with a tag that is not supported ends with
\* success = false and a failedReason that holds the tag and the four
\* supported names; nothing beyond the tag check was called.
UnsupportedTagRejected ==
    (req.pc # "idle" /\ req.model \notin SupportedSet) =>
        /\ req.pc = "returned"
        /\ ~req.result.success
        /\ req.model \in Range(req.result.failedReason)
        /\ {"BiLSTM", "Relative-Transformer", "Transformer", "TreeLSTM"}
              \subseteq Range(req.result.failedReason)
        /\ req.calls = {}

\* a call with the tag LSTM2 has returned
UnsupportedTagReturned ==
    /\ req.pc = "returned"
    /\ req.model = "LSTM2"
    /\ "LSTM2" \in Range(req.result.failedReason)

FamilyTrainSet(model) ==
    IF model \in SeqFamily THEN train_seq_dataset ELSE train_tree_dataset

\* C7: the Vocabulary of the evaluation dataset of a request, which sizes the
\* model and is passed to evaluate, is the instance held by the cached
\* training dataset of the requested architecture's family.
VocabularyIsFamilyInstance ==
    req.test_dataset.kind # "None" =>
        /\ req.test_dataset.vocab.id # 0
        /\ req.test_dataset.vocab = FamilyTrainSet(req.model).vocab
        /\ (req.net.arch # "None" => req.net.vocab_size = FamilyTrainSet(req.model).vocab.size)

\* a TreeLSTM request succeeded on the tree family's Vocabulary while the
\* sequence family's, another instance, exists
TreeRequestUsedTreeVocabulary ==
    /\ req.pc = "returned"
    /\ req.result.success
    /\ req.model = "TreeLSTM"
    /\ req.test_dataset.vocab.id = train_tree_dataset.vocab.id
    /\ train_seq_dataset.kind # "None"
    /\ train_seq_dataset.vocab.id # train_tree_dataset.vocab.id

GoldAbsent(gold) == gold = PyNone \/ gold = ""

\* C8: a predict call made without gold text (absent or empty) returns
\* score = 0, also after a fully successful pipeline.
ScoreZeroWithoutGold ==
    (req.pc = "returned" /\ GoldAbsent(req.gold)) => req.result.score = 0

\* a successful call without gold text, with generated text
SucceededWithoutGold ==
    /\ req.pc = "returned"
    /\ req.gold = PyNone
    /\ req.result.success
    /\ Len(req.result.result) > 0
    /\ ~req.result.hasScore

\* C9: in every result predict returns, hasScore is true exactly when the
\* gold text is present and non-empty.
HasScoreIffGold ==
    req.pc = "returned" => (req.result.hasScore <=> ~GoldAbsent(req.gold))

\* a failed call whose gold text is the empty string
FailedWithEmptyGold ==
    /\ req.pc = "returned"
    /\ ~req.result.success
    /\ req.gold = ""
    /\ ~req.result.hasScore
    /\ "build_dataset" \in req.calls

\* C10: once the load of a checkpoint has failed in setup_checkpoints,
\* is_ready() is false, whatever setup_models builds afterwards.
NotReadyAfterFailedLoad ==
    loader.raised => ~is_ready

\* the materializer returned "" to the call in flight
MaterializerReturnedEmpty ==
    /\ req.pc \in {"run", "dataset", "model", "evaluate", "returned"}
    /\ "build_input_sql_json" \in req.calls
    /\ req.jsonTargetPath = ""

\* C11: when the materializer returns an empty path for a supported tag,
\* predict returns success = false with a failedReason that reports the
\* failed build of the input and names the tag, and nothing after the
\* materializer is called.
EmptyPathShortCircuits ==
    MaterializerReturnedEmpty =>
        /\ req.pc = "returned"
        /\ ~req.result.success
        /\ req.result.failedReason[1] = "build json file for model '"
        /\ req.result.failedReason[2] = req.model
        /\ "' failed!" \in Range(req.result.failedReason)
        /\ req.calls = {"build_input_sql_json"}
        /\ req.test_dataset = NoDataset
        /\ req.net = NoModel

\* a TreeLSTM call has returned after the materializer gave no path
TreeRequestEmptyPathReturned ==
    /\ MaterializerReturnedEmpty
    /\ req.pc = "returned"
    /\ req.model = "TreeLSTM"
    /\ "TreeLSTM" \in Range(req.result.failedReason)

BuiltCount ==
    (IF train_seq_dataset.kind = "None" THEN 0 ELSE 1)
        + (IF train_tree_dataset.kind = "None" THEN 0 ELSE 1)

\* C13: setup_models is memoized per family: a step of any call leaves a
\* training dataset that exists (and its Vocabulary instance) as it is, and
\* every dataset ever constructed is one of the at most two that are cached.
TrainingDatasetsBuiltOnce ==
    [][ /\ (train_seq_dataset.kind # "None" => train_seq_dataset' = train_seq_dataset)
        /\ (train_tree_dataset.kind # "None" => train_tree_dataset' = train_tree_dataset)
        /\ vocab_count' = BuiltCount' ]_vars

\* a later call of setup_models has run to its end over two cached datasets
SecondSetupCallDone ==
    /\ builder.calls >= 2
    /\ builder.pc = "idle"
    /\ train_seq_dataset.kind = "seq"
    /\ train_tree_dataset.kind = "tree"
    /\ vocab_count = 2

Clamped(id, vocab) == IF id < vocab.size THEN id ELSE vocab.unk_idx

\* C14: the token fed to decode at step k+1 is the id selected at step k when
\* that id is below vocab.size and unk_idx otherwise, so every token fed after
\* the start marker is below vocab.size; the same holds of the token that the
\* next step will be fed.
FedTokenIsClamped ==
    /\ \A k \in 2..Len(ev.fed) :
          /\ ev.fed[k] = Clamped(ev.argmaxes[k - 1], ev.vocab)
          /\ ev.fed[k] < ev.vocab.size
    /\ (ev.pc = "decode" /\ ev.step > 0 =>
          /\ ev.tensors[ev.inputs] = Clamped(ev.argmaxes[ev.step], ev.vocab)
          /\ ev.tensors[ev.inputs] < ev.vocab.size)

\* the loop has fed unk_idx after a copy id and the selected id itself after
\* an id of the vocabulary
FedBothKinds ==
    /\ ev.pc = "decode"
    /\ \E k \in 2..Len(ev.fed) :
          ev.argmaxes[k - 1] >= ev.vocab.size /\ ev.fed[k] = ev.vocab.unk_idx
    /\ \E k \in 2..Len(ev.fed) :
          /\ ev.argmaxes[k - 1] < ev.vocab.size
          /\ ev.argmaxes[k - 1] # ev.vocab.unk_idx
          /\ ev.fed[k] = ev.argmaxes[k - 1]

\* build_model returned None to the call that has returned
BuildModelFailed ==
    /\ req.pc = "returned"
    /\ "build_model" \in req.calls
    /\ req.net = NoModel
    /\ req.result.failedReason # << >>
    /\ req.result.failedReason[1] = "build model for "

\* C16: when build_model signals failure, predict returns before the weights
\* are loaded and before decoding, with success = false and a failedReason
\* that names the architecture tag requested.
BuildModelFailureNamesTag ==
    BuildModelFailed =>
        /\ ~req.result.success
        /\ "load_state_dict" \notin req.calls
        /\ "evaluate" \notin req.calls
        /\ req.model \in Range(req.result.failedReason)

AllStages ==
    {"build_input_sql_json", "checkpoint_dict", "build_dataset", "build_model",
     "load_state_dict", "evaluate"}

\* C17: in every result predict returns, success and failure exclude each
\* other: success = true only after every stage has been gone through, and
\* then failedReason is as constructed; a result with a failedReason has
\* success, result text and score as constructed.
SuccessExcludesFailure ==
    req.pc = "returned" =>
        /\ (req.result.success =>
              /\ req.result.failedReason = EvaluationResult.failedReason
              /\ req.calls = AllStages
              /\ req.model \in SupportedSet
              /\ req.test_dataset # NoDataset
              /\ req.net # NoModel)
        /\ (req.result.failedReason # EvaluationResult.failedReason =>
              /\ req.result.success = EvaluationResult.success
              /\ req.result.result = EvaluationResult.result
              /\ req.result.score = EvaluationResult.score)

\* a call with gold text has succeeded with a score
SucceededWithScore ==
    /\ req.pc = "returned"
    /\ req.result.success
    /\ req.result.score > 0
    /\ Len(req.result.result) = MAX_DECODE
    /\ req.result.failedReason = << >>

\* C15, as claimed: predict returns success = true for a supported tag only
\* in a state where is_ready() is true.
SuccessOnlyWhenReady ==
    (req.pc = "returned" /\ req.model \in SupportedSet /\ req.result.success) => is_ready

TagReady(model) == model \in LoadedTags /\ FamilyTrainSet(model).kind # "None"

\* C15, amended: predict gets past the lookup only with the checkpoint of the
\* requested tag loaded, past build_dataset only with the training dataset of
\* the tag's family built, and so returns success = true only with both; a
\* call that finds the checkpoint missing returns success = false with the
\* reason that names the tag.
SuccessOnlyWhenTagReady ==
    /\ (req.pc \in {"dataset", "model", "evaluate"} => req.model \in LoadedTags)
    /\ (req.pc \in {"model", "evaluate"} => TagReady(req.model))
    /\ (req.pc = "returned" /\ req.result.success => TagReady(req.model))
    /\ (req.pc = "returned" /\ req.jsonTargetPath # "" /\ "checkpoint_dict" \notin req.calls
          => /\ ~req.result.success
             /\ req.result.failedReason =
                   <<"checkpoint for model ", req.model, " is not loaded yet">>)

\* a call has succeeded while is_ready() is false
SucceededBeforeReady ==
    /\ req.pc = "returned"
    /\ req.result.success
    /\ TagReady(req.model)
    /\ ~is_ready

\* the call in flight has returned, no collaborator having raised, with the
\* arguments and the materialized record of the call kept
SameCallAgain ==
    /\ earlier # NoCall
    /\ req.pc = "returned"
    /\ ~CollaboratorRaised(req)
    /\ Kept(req, earlier.at) = [earlier EXCEPT !.result = req.result]

====
